---------------------------- MODULE Spec2Model ----------------------------
(***************************************************************************)
(* The two comma-repair scripts fix_json.py (basic variant) and            *)
(* fix_json_comprehensive.py (comprehensive variant).                      *)
(*                                                                         *)
(* A text is a sequence of one-character strings.  The regular expressions *)
(* of the scripts are modelled by matchers that walk the text the way the  *)
(* regex engine does.  Every quantified class of the three patterns is     *)
(* followed by a literal that is not in the class (\s+ by } or ", [^"]+ by *)
(* ", \s* by : or { or }), so the greedy run is the only way to match and  *)
(* backtracking never finds another one: a run matcher is exact.           *)
(***************************************************************************)
EXTENDS Naturals, Sequences, FiniteSets

VARIABLES
    variant,        \* which script runs: "basic" or "comprehensive"
    file,           \* the text stored at file_path
    file0,          \* the text stored at file_path when the script started
    content,        \* local `content`
    lines,          \* local `lines`
    fixed_lines,    \* local `fixed_lines`
    i,              \* local `i`
    fixed_content,  \* local `fixed_content`
    handles,        \* the file objects that are open
    out,            \* the lines printed on standard output
    err,            \* the exception that left the function, or "none"
    pc              \* the statement the script is at

vars == <<variant, file, file0, content, lines, fixed_lines, i,
          fixed_content, handles, out, err, pc>>

----------------------------------------------------------------------------
(* Characters and character classes.                                       *)

SP == " "
NL == "\n"
RB == "}"
LB == "{"
QT == "\""
CL == ":"
CM == ","
CR == "\r"

\* \s of the patterns and the characters str.strip() removes, restricted to
\* the characters of the model's texts.
IsSpace(c) == c \in {SP, NL}

\* [^"] of the patterns.
NotQuote(c) == c # QT

----------------------------------------------------------------------------
(* Sequence helpers.                                                       *)

\* text[a..b] as a sequence, empty when a > b.
Slice(s, a, b) == IF a > b THEN <<>> ELSE SubSeq(s, a, b)

\* The first index >= p whose character is not white space (Len(s)+1 when
\* the run reaches the end): the end of a greedy \s* started at p.
RECURSIVE SkipSpace(_, _)
SkipSpace(s, p) ==
    IF p <= Len(s) /\ IsSpace(s[p]) THEN SkipSpace(s, p + 1) ELSE p

\* The same for a greedy [^"]* started at p.
RECURSIVE SkipNotQuote(_, _)
SkipNotQuote(s, p) ==
    IF p <= Len(s) /\ NotQuote(s[p]) THEN SkipNotQuote(s, p + 1) ELSE p

\* Whether s has character c at index p.
At(s, p, c) == p >= 1 /\ p <= Len(s) /\ s[p] = c

----------------------------------------------------------------------------
(* The patterns.  A matcher returns the index just after the match, or 0   *)
(* when the pattern does not match at p.                                   *)

\* "[^"]+"\s*:\s*{ with the opening quote at index q.
KeyOpenEnd(s, q) ==
    IF ~At(s, q, QT) THEN 0
    ELSE LET k == SkipNotQuote(s, q + 1)
         IN  IF k = q + 1 \/ ~At(s, k, QT) THEN 0
             ELSE LET c == SkipSpace(s, k + 1)
                  IN  IF ~At(s, c, CL) THEN 0
                      ELSE LET b == SkipSpace(s, c + 1)
                           IN  IF At(s, b, LB) THEN b + 1 ELSE 0

\* re.match(r'\s*"[^"]+"\s*:\s*{', line)
MatchKeyLine(line) == KeyOpenEnd(line, SkipSpace(line, 1)) # 0

\* (\s+})\n(\s+"[^"]+"\s*:\s*{) tried at index p: <<end of group 1, end of
\* the match>>, or <<0, 0>>.
BraceKeyMatch(s, p) ==
    LET r == SkipSpace(s, p)
    IN  IF r = p \/ ~At(s, r, RB) \/ ~At(s, r + 1, NL) THEN <<0, 0>>
        ELSE LET q == SkipSpace(s, r + 2)
             IN  IF q = r + 2 THEN <<0, 0>>
                 ELSE LET e == KeyOpenEnd(s, q)
                      IN  IF e = 0 THEN <<0, 0>> ELSE <<r + 1, e>>

\* The pattern without its closing brace, ,(\s*): any comma matches.
TrailingCommaMatch_NoBrace(s, p) ==
    IF ~At(s, p, CM) THEN 0 ELSE SkipSpace(s, p + 1)

\* ,(\s*}) tried at index p: the end of the match, or 0.
TrailingCommaMatch(s, p) ==
    IF ~At(s, p, CM) THEN 0
    ELSE LET r == SkipSpace(s, p + 1)
         IN  IF At(s, r, RB) THEN r + 1 ELSE 0

----------------------------------------------------------------------------
(* The substitutions: re.sub scans from the left, replaces the leftmost    *)
(* match and goes on after its end, so matches never overlap.              *)

\* The replacement without its line break: group 1, a comma, group 2.
RECURSIVE SubBraceKey_NoNewline(_, _)
SubBraceKey_NoNewline(s, p) ==
    IF p > Len(s) THEN <<>>
    ELSE LET m == BraceKeyMatch(s, p)
         IN  IF m[2] # 0
             THEN Slice(s, p, m[1] - 1) \o <<CM>> \o Slice(s, m[1] + 1, m[2] - 1)
                  \o SubBraceKey_NoNewline(s, m[2])
             ELSE <<s[p]>> \o SubBraceKey_NoNewline(s, p + 1)

\* re.sub(pattern, add_comma, content): group 1, a comma, the newline,
\* group 2.  The text from index p on, rewritten.
RECURSIVE SubBraceKey(_, _)
SubBraceKey(s, p) ==
    IF p > Len(s) THEN <<>>
    ELSE LET m == BraceKeyMatch(s, p)
         IN  IF m[2] # 0
             THEN Slice(s, p, m[1] - 1) \o <<CM, NL>> \o Slice(s, m[1] + 1, m[2] - 1)
                  \o SubBraceKey(s, m[2])
             ELSE <<s[p]>> \o SubBraceKey(s, p + 1)

\* re.sub(r',(\s*})', r'\1', fixed_content): the match without its comma.
RECURSIVE SubTrailingComma(_, _)
SubTrailingComma(s, p) ==
    IF p > Len(s) THEN <<>>
    ELSE LET e == TrailingCommaMatch(s, p)
         IN  IF e # 0
             THEN Slice(s, p + 1, e - 1) \o SubTrailingComma(s, e)
             ELSE <<s[p]>> \o SubTrailingComma(s, p + 1)

----------------------------------------------------------------------------
(* Lines.                                                                  *)

\* content.split('\n'): always at least one line.
RECURSIVE SplitFrom(_, _, _)
SplitFrom(s, p, cur) ==
    IF p > Len(s) THEN <<cur>>
    ELSE IF s[p] = NL THEN <<cur>> \o SplitFrom(s, p + 1, <<>>)
    ELSE SplitFrom(s, p + 1, Append(cur, s[p]))

Split(s) == SplitFrom(s, 1, <<>>)

\* '\n'.join(ls)
RECURSIVE Join(_)
Join(ls) ==
    IF Len(ls) = 0 THEN <<>>
    ELSE IF Len(ls) = 1 THEN ls[1]
    ELSE ls[1] \o <<NL>> \o Join(Tail(ls))

\* line.strip().endswith('}'): the last character that is not white space
\* is a closing brace.
RECURSIVE LastNonSpace(_, _)
LastNonSpace(line, p) ==
    IF p >= 1 /\ IsSpace(line[p]) THEN LastNonSpace(line, p - 1) ELSE p

\* line.endswith('}') with the strip() left out.
EndsWithBrace_NoStrip(line) == At(line, Len(line), RB)

StripEndsWithBrace(line) == At(line, LastNonSpace(line, Len(line)), RB)

\* The test without its first conjunct: any line before a key line.
NeedsComma_NoBraceTest(ls, k) ==
    /\ k + 1 <= Len(ls)
    /\ MatchKeyLine(ls[k + 1])

\* The test of the line loop for the line at (1-based) index k.
NeedsComma(ls, k) ==
    /\ StripEndsWithBrace(ls[k])
    /\ k + 1 <= Len(ls)
    /\ MatchKeyLine(ls[k + 1])

\* One iteration's append.
FixedLine(ls, k) == IF NeedsComma(ls, k) THEN Append(ls[k], CM) ELSE ls[k]

----------------------------------------------------------------------------
(* The two transformations as functions of the text.                       *)

\* fix_json.py: content -> fixed_content
fix_json_syntax(s) == SubBraceKey(s, 1)

\* fix_json_comprehensive.py: the line loop run to its end, and the join
LinePass(s) ==
    LET ls == Split(s) IN Join([k \in 1..Len(ls) |-> FixedLine(ls, k)])

\* fix_json_comprehensive.py: content -> fixed_content
fix_json_comprehensive(s) ==
    SubBraceKey(SubTrailingComma(LinePass(s), 1), 1)

----------------------------------------------------------------------------
(* The texts the file holds: up to MaxLines lines, each one of the line    *)
(* forms below, joined by newlines.  A line that ends with a carriage      *)
(* return gives the file a \r\n line ending (a lone \r when it is the last).*)

MaxLines == 3

LineForms ==
    { <<>>,                                   \* an empty line
      <<SP, RB>>,                             \*  }
      <<SP, RB, SP>>,                         \*  } and a trailing blank
      <<SP, RB, CR>>,                         \*  } and a carriage return
      <<SP, RB, CM>>,                         \*  },
      <<SP, QT, "a", QT, CL, LB>>,            \*  "a":{
      <<QT, "a", QT, CL, LB>>,                \* "a":{ at the line's start
      <<SP, QT, "a", QT, CL, LB, RB>>,        \*  "a":{}
      <<CM>>,                                 \* ,
      <<SP, QT, SP, RB>>,                     \*  " }
      <<SP, QT, CL, LB, QT, CL, LB>> }        \*  ":{":{

LineSeqs == UNION { [1..n -> LineForms] : n \in 1..MaxLines }

Texts == { Join(ls) : ls \in LineSeqs }

----------------------------------------------------------------------------
(* The run of a script.  `with open(...)` releases the file object when    *)
(* its block is left, by the end of the block or by an exception.          *)

BasicMessage == "JSON syntax fixes applied"
ComprehensiveMessage == "Comprehensive JSON syntax fixes applied"

Variants == {"basic", "comprehensive"}

Init ==
    /\ variant \in Variants
    /\ file \in Texts
    /\ file0 = file
    /\ content = <<>>
    /\ lines = <<>>
    /\ fixed_lines = <<>>
    /\ i = 0
    /\ fixed_content = <<>>
    /\ handles = {}
    /\ out = <<>>
    /\ err = "none"
    /\ pc = "start"

\* The exceptions, named with the call that raises them.
ReadErrors == {"open(r): OSError", "read: UnicodeDecodeError", "read: OSError"}
WriteErrors == {"open(w): OSError", "write: OSError"}

\* An exception leaves the function: nothing catches it, the script ends.
Raise(e) == err' = e /\ pc' = "raised"

\* open(file_path, 'r', encoding='utf-8')
OpenRead ==
    /\ pc = "start"
    /\ handles' = handles \cup {"r"}
    /\ pc' = "opened_r"
    /\ UNCHANGED <<variant, file, file0, content, lines, fixed_lines, i,
                   fixed_content, out, err>>

\* open(..., 'r') raises: the file is missing or may not be read.
OpenReadFails ==
    /\ pc = "start"
    /\ Raise("open(r): OSError")
    /\ UNCHANGED <<variant, file, file0, content, lines, fixed_lines, i,
                   fixed_content, handles, out>>

\* The text a file opened with mode 'r' (newline=None) hands to read():
\* the decoded characters with \r\n and a lone \r both turned into \n.
RECURSIVE UniversalNewlines(_, _)
UniversalNewlines(s, p) ==
    IF p > Len(s) THEN <<>>
    ELSE IF s[p] = CR
         THEN <<NL>> \o UniversalNewlines(s, IF At(s, p + 1, NL) THEN p + 2 ELSE p + 1)
    ELSE <<s[p]>> \o UniversalNewlines(s, p + 1)

\* content = f.read()
Read ==
    /\ pc = "opened_r"
    /\ content' = UniversalNewlines(file, 1)
    /\ pc' = "read"
    /\ UNCHANGED <<variant, file, file0, lines, fixed_lines, i,
                   fixed_content, handles, out, err>>

\* f.read() raises (the bytes are not UTF-8, or the read fails); the with
\* block closes f on the way out.
ReadFails ==
    /\ pc = "opened_r"
    /\ \E e \in {"read: UnicodeDecodeError", "read: OSError"} : Raise(e)
    /\ handles' = handles \ {"r"}
    /\ UNCHANGED <<variant, file, file0, content, lines, fixed_lines, i,
                   fixed_content, out>>

\* The file object is not released: open() used without `with`.
CloseRead_Leak ==
    /\ pc = "read"
    /\ pc' = "closed_r"
    /\ UNCHANGED <<variant, file, file0, content, lines, fixed_lines, i,
                   fixed_content, handles, out, err>>

\* The end of the first with block.
CloseRead ==
    /\ pc = "read"
    /\ handles' = handles \ {"r"}
    /\ pc' = "closed_r"
    /\ UNCHANGED <<variant, file, file0, content, lines, fixed_lines, i,
                   fixed_content, out, err>>

\* fix_json.py: fixed_content = re.sub(pattern, add_comma, content)
BasicSub ==
    /\ pc = "closed_r"
    /\ variant = "basic"
    /\ fixed_content' = fix_json_syntax(content)
    /\ pc' = "transformed"
    /\ UNCHANGED <<variant, file, file0, content, lines, fixed_lines, i,
                   handles, out, err>>

\* fix_json_comprehensive.py: lines = content.split('\n'); fixed_lines = [];
\* i = 0
SplitLines ==
    /\ pc = "closed_r"
    /\ variant = "comprehensive"
    /\ lines' = Split(content)
    /\ fixed_lines' = <<>>
    /\ i' = 0
    /\ pc' = "loop"
    /\ UNCHANGED <<variant, file, file0, content, fixed_content, handles,
                   out, err>>

\* One iteration of `while i < len(lines)`; lines[i] of the code is
\* lines[i + 1] here.
LoopStep ==
    /\ pc = "loop"
    /\ i < Len(lines)
    /\ fixed_lines' = Append(fixed_lines, FixedLine(lines, i + 1))
    /\ i' = i + 1
    /\ UNCHANGED <<variant, file, file0, content, lines, fixed_content,
                   handles, out, err, pc>>

\* The loop condition fails; fixed_content = '\n'.join(fixed_lines)
JoinLines ==
    /\ pc = "loop"
    /\ ~(i < Len(lines))
    /\ fixed_content' = Join(fixed_lines)
    /\ pc' = "joined"
    /\ UNCHANGED <<variant, file, file0, content, lines, fixed_lines, i,
                   handles, out, err>>

\* fixed_content = re.sub(r',(\s*})', r'\1', fixed_content)
RemoveTrailingCommas ==
    /\ pc = "joined"
    /\ fixed_content' = SubTrailingComma(fixed_content, 1)
    /\ pc' = "cleaned"
    /\ UNCHANGED <<variant, file, file0, content, lines, fixed_lines, i,
                   handles, out, err>>

\* fixed_content = re.sub(r'(\s+})\n(\s+"[^"]+"\s*:\s*{)', r'\1,\n\2',
\* fixed_content)
ComprehensiveSub ==
    /\ pc = "cleaned"
    /\ fixed_content' = SubBraceKey(fixed_content, 1)
    /\ pc' = "transformed"
    /\ UNCHANGED <<variant, file, file0, content, lines, fixed_lines, i,
                   handles, out, err>>

\* open(file_path, 'w', encoding='utf-8'): the file is truncated.
OpenWrite ==
    /\ pc = "transformed"
    /\ handles' = handles \cup {"w"}
    /\ file' = <<>>
    /\ pc' = "opened_w"
    /\ UNCHANGED <<variant, file0, content, lines, fixed_lines, i,
                   fixed_content, out, err>>

\* open(..., 'w') raises: the file may not be written; it is not touched.
OpenWriteFails ==
    /\ pc = "transformed"
    /\ Raise("open(w): OSError")
    /\ UNCHANGED <<variant, file, file0, content, lines, fixed_lines, i,
                   fixed_content, handles, out>>

\* f.write(fixed_content): mode 'w' writes each \n as os.linesep, which is
\* \n on the system the hard-coded path belongs to.
Write ==
    /\ pc = "opened_w"
    /\ file' = fixed_content
    /\ pc' = "written"
    /\ UNCHANGED <<variant, file0, content, lines, fixed_lines, i,
                   fixed_content, handles, out, err>>

\* The text that reached the file when a write failed: nothing, or a part.
PartialWrites(s) == {<<>>, Slice(s, 1, Len(s) \div 2)}

\* The error of a failed write is swallowed and the run goes on.
WriteFails_Swallowed ==
    /\ pc = "opened_w"
    /\ file' \in PartialWrites(fixed_content)
    /\ handles' = handles \ {"w"}
    /\ pc' = "closed_w"
    /\ UNCHANGED <<variant, file0, content, lines, fixed_lines, i,
                   fixed_content, out, err>>

\* f.write raises (or the flush of the closing file does): some of the text
\* may have reached the file; the with block closes f on the way out.
WriteFails ==
    /\ pc = "opened_w"
    /\ file' \in PartialWrites(fixed_content)
    /\ Raise("write: OSError")
    /\ handles' = handles \ {"w"}
    /\ UNCHANGED <<variant, file0, content, lines, fixed_lines, i,
                   fixed_content, out>>

\* The end of the second with block.
CloseWrite ==
    /\ pc = "written"
    /\ handles' = handles \ {"w"}
    /\ pc' = "closed_w"
    /\ UNCHANGED <<variant, file, file0, content, lines, fixed_lines, i,
                   fixed_content, out, err>>

\* print("JSON syntax fixes applied") or
\* print("Comprehensive JSON syntax fixes applied")
PrintDone ==
    /\ pc = "closed_w"
    /\ out' = Append(out, IF variant = "basic" THEN BasicMessage
                          ELSE ComprehensiveMessage)
    /\ pc' = "done"
    /\ UNCHANGED <<variant, file, file0, content, lines, fixed_lines, i,
                   fixed_content, handles, err>>

Next ==
    \/ OpenRead
    \/ OpenReadFails
    \/ Read
    \/ ReadFails
    \/ CloseRead
    \/ BasicSub
    \/ SplitLines
    \/ LoopStep
    \/ JoinLines
    \/ RemoveTrailingCommas
    \/ ComprehensiveSub
    \/ OpenWrite
    \/ OpenWriteFails
    \/ Write
    \/ WriteFails
    \/ CloseWrite
    \/ PrintDone

Spec == Init /\ [][Next]_vars

----------------------------------------------------------------------------
(* What the properties speak of, stated by positions in the text rather    *)
(* than by a walk over it.                                                 *)

\* The input and the output of a transformation are both at hand.
Transformed == pc = "transformed"

\* s[a..b] holds only white space.
AllSpace(s, a, b) == \A j \in a..b : IsSpace(s[j])

\* s[a..b] holds only white space that is no line break.
AllBlank(s, a, b) == \A j \in a..b : s[j] = SP

\* From index q on, s reads: quoted key (one or more characters that are
\* no quote), optional white space, colon, optional white space, {.
KeyOpensAt(s, q) ==
    /\ At(s, q, QT)
    /\ \E k \in (q + 2)..Len(s) :
          /\ s[k] = QT
          /\ \A j \in (q + 1)..(k - 1) : s[j] # QT
          /\ \E c \in (k + 1)..Len(s) :
                /\ s[c] = CL
                /\ AllSpace(s, k + 1, c - 1)
                /\ \E b \in (c + 1)..Len(s) :
                      s[b] = LB /\ AllSpace(s, c + 1, b - 1)

\* The line begins, after optional white space, with a quoted key, a colon
\* and an opening brace.
IsKeyOpenLine(line) ==
    \E q \in 1..Len(line) : AllSpace(line, 1, q - 1) /\ KeyOpensAt(line, q)

\* The line's trailing content is a closing brace, at index p.
TrailingBraceAt(line, p) ==
    At(line, p, RB) /\ AllSpace(line, p + 1, Len(line))

IsBraceLine(line) == \E p \in 1..Len(line) : TrailingBraceAt(line, p)

\* Lines k and k+1 of ls are a repair site.
RepairSite(ls, k) ==
    k + 1 <= Len(ls) /\ IsBraceLine(ls[k]) /\ IsKeyOpenLine(ls[k + 1])

\* The text has a comma followed only by optional white space and then }.
HasTrailingComma(s) ==
    \E p \in 1..Len(s) :
        /\ s[p] = CM
        /\ \E r \in (p + 1)..Len(s) : s[r] = RB /\ AllSpace(s, p + 1, r - 1)

\* The text without its commas.
RECURSIVE WithoutCommas(_)
WithoutCommas(s) ==
    IF Len(s) = 0 THEN <<>>
    ELSE IF Head(s) = CM THEN WithoutCommas(Tail(s))
    ELSE <<Head(s)>> \o WithoutCommas(Tail(s))

\* t is s with commas inserted, each one directly after a closing brace and
\* directly before a line break.  prev is the character before s[1].
RECURSIVE OnlyCommasInserted(_, _, _)
OnlyCommasInserted(s, t, prev) ==
    IF Len(t) = 0 THEN Len(s) = 0
    ELSE IF Len(s) > 0 /\ Head(s) = Head(t)
         THEN OnlyCommasInserted(Tail(s), Tail(t), Head(s))
    ELSE /\ Head(t) = CM
         /\ prev = RB
         /\ Len(s) > 0 /\ Head(s) = NL
         /\ OnlyCommasInserted(s, Tail(t), CM)

----------------------------------------------------------------------------
(* C1 *)

\* C1 (as stated): for both variants, at every repair site of the input the
\* output has a comma immediately after the site's closing brace, and the
\* line that follows is unchanged.
C1_CommaAtEverySite ==
    Transformed =>
        LET ls == Split(content)
            os == Split(fixed_content)
        IN  /\ Len(os) = Len(ls)
            /\ \A k \in 1..Len(ls) : RepairSite(ls, k) =>
                  /\ \E p \in 1..Len(ls[k]) :
                        /\ TrailingBraceAt(ls[k], p)
                        /\ Len(os[k]) > p
                        /\ SubSeq(os[k], 1, p) = SubSeq(ls[k], 1, p)
                        /\ os[k][p + 1] = CM
                  /\ os[k + 1] = ls[k + 1]

----------------------------------------------------------------------------
(* C2 *)

\* C2 (as stated): the basic variant is idempotent: applied to its own
\* output it returns that output.
C2_BasicIdempotent ==
    (Transformed /\ variant = "basic") =>
        fix_json_syntax(fixed_content) = fixed_content

----------------------------------------------------------------------------
(* C3 *)

\* C3 (as stated): the comprehensive variant is idempotent, and so is its
\* trailing-comma cleanup on its own.
C3_ComprehensiveIdempotent ==
    /\ (Transformed /\ variant = "comprehensive") =>
          fix_json_comprehensive(fixed_content) = fixed_content
    /\ pc = "cleaned" => SubTrailingComma(fixed_content, 1) = fixed_content

----------------------------------------------------------------------------
(* C6 *)

\* C6 (as stated): the output of the comprehensive variant has no comma
\* that is followed only by optional white space and a closing brace.
C6_NoTrailingCommaLeft ==
    (Transformed /\ variant = "comprehensive") =>
        ~HasTrailingComma(fixed_content)

----------------------------------------------------------------------------
(* C7 *)

\* C7: both variants change nothing but commas (the output without its
\* commas is the input without its commas), and the basic variant only
\* inserts commas, each directly after a closing brace that is directly
\* followed by a line break.
C7_OnlyCommasChange ==
    Transformed =>
        /\ WithoutCommas(fixed_content) = WithoutCommas(content)
        /\ variant = "basic" =>
              OnlyCommasInserted(content, fixed_content, "")

\* The basic variant has inserted a comma.
C7_Witness ==
    /\ Transformed
    /\ fixed_content # content
    /\ variant = "basic"

----------------------------------------------------------------------------
(* C4 *)

\* The text has a closing brace followed, after optional blanks, a line
\* break and any further white space (blank lines included), by a quoted
\* key (which may span lines), a colon and an opening brace.
HasBraceThenKey(s) ==
    \E p \in 1..Len(s) :
        /\ s[p] = RB
        /\ \E n \in (p + 1)..Len(s) :
              /\ s[n] = NL
              /\ AllBlank(s, p + 1, n - 1)
              /\ \E q \in (n + 1)..Len(s) :
                    AllSpace(s, n + 1, q - 1) /\ KeyOpensAt(s, q)

\* The text has no pair of adjacent lines that is a repair site.
NoRepairSite(s) ==
    LET ls == Split(s) IN \A k \in 1..Len(ls) : ~RepairSite(ls, k)

\* C4 (as stated): a text without a repair site is returned unchanged by
\* each variant.
C4_NoSiteNoChange ==
    (Transformed /\ NoRepairSite(content)) => fixed_content = content

\* C4 (amended): a text in which no closing brace is followed (after
\* optional blanks, a line break and any white space) by a quoted key, a
\* colon and an opening brace is returned unchanged by the basic variant,
\* and by the comprehensive variant when it also has no comma followed only
\* by optional white space and a closing brace.
C4_NoBraceThenKeyNoChange ==
    ( /\ Transformed
      /\ ~HasBraceThenKey(content)
      /\ variant = "comprehensive" => ~HasTrailingComma(content) )
    => fixed_content = content

\* The line ends with a closing brace and its comma.
IsBraceCommaLine(line) ==
    \E p \in 1..Len(line) :
        At(line, p, RB) /\ At(line, p + 1, CM) /\ AllSpace(line, p + 2, Len(line))

\* Some closing brace that has its comma is followed by a key-opening line.
HasSeparatedPair(s) ==
    LET ls == Split(s)
    IN  \E k \in 1..(Len(ls) - 1) :
            IsBraceCommaLine(ls[k]) /\ IsKeyOpenLine(ls[k + 1])

\* A text with braces, keys and commas that meets the amended precondition
\* has been transformed.
C4_Witness ==
    /\ Transformed
    /\ ~HasBraceThenKey(content)
    /\ ~HasTrailingComma(content)
    /\ HasSeparatedPair(content)

----------------------------------------------------------------------------
(* C5 *)

\* Every closing brace that ends a line followed by a key-opening line has
\* its comma.
AlreadySeparated(s) ==
    LET ls == Split(s)
    IN  \A k \in 1..(Len(ls) - 1) :
            (IsKeyOpenLine(ls[k + 1])
                /\ (IsBraceLine(ls[k]) \/ IsBraceCommaLine(ls[k])))
            => IsBraceCommaLine(ls[k])

\* t is s from index p on with commas removed, each of them followed in s
\* only by optional white space and a closing brace; nothing is added.
RECURSIVE OnlyTrailingCommasRemoved(_, _, _)
OnlyTrailingCommasRemoved(s, p, t) ==
    IF p > Len(s) THEN Len(t) = 0
    ELSE IF Len(t) > 0 /\ s[p] = Head(t)
         THEN OnlyTrailingCommasRemoved(s, p + 1, Tail(t))
    ELSE /\ s[p] = CM
         /\ \E r \in (p + 1)..Len(s) : s[r] = RB /\ AllSpace(s, p + 1, r - 1)
         /\ OnlyTrailingCommasRemoved(s, p + 1, t)

\* C5 (as stated): a text whose sibling members are already separated by
\* commas is not altered by either variant.
C5_SeparatedUnaltered ==
    (Transformed /\ AlreadySeparated(content)) => fixed_content = content

\* C5 (amended): when every closing brace that is followed (after optional
\* blanks, a line break and any white space) by a quoted key, a colon and
\* an opening brace already has its comma, neither variant adds a comma;
\* the basic variant returns the text unchanged and the comprehensive
\* variant removes only commas that stand directly before a closing brace.
C5_SeparatedNoCommaAdded ==
    (Transformed /\ ~HasBraceThenKey(content)) =>
        /\ variant = "basic" => fixed_content = content
        /\ variant = "comprehensive" =>
              OnlyTrailingCommasRemoved(content, 1, fixed_content)

\* The comprehensive variant has run on a text with a separated pair and a
\* trailing comma, and removed the latter.
C5_Witness ==
    /\ Transformed
    /\ variant = "comprehensive"
    /\ ~HasBraceThenKey(content)
    /\ HasSeparatedPair(content)
    /\ fixed_content # content

----------------------------------------------------------------------------
(* C8 *)

AfterRead == {"read", "closed_r", "loop", "joined", "cleaned", "transformed",
              "opened_w", "written", "closed_w", "done"}
AfterTransform == {"transformed", "opened_w", "written", "closed_w", "done"}
AfterWrite == {"written", "closed_w", "done"}

\* What the variant that runs makes of a text.
Repaired(s) ==
    IF variant = "basic" THEN fix_json_syntax(s) ELSE fix_json_comprehensive(s)

\* C8: the steps happen in the order read, transform, write, print.  The
\* file is touched only once its whole content was read and transformed;
\* the confirmation is printed once, after the write has completed; an
\* error ends the run (no retry) without a confirmation, and an error of
\* opening, reading or decoding leaves the file as it was.
C8_ReadTransformWritePrint ==
    /\ pc \in AfterRead => content = UniversalNewlines(file0, 1)
    /\ pc \in AfterTransform => fixed_content = Repaired(content)
    /\ pc \notin AfterTransform \ {"transformed"} /\ err \notin WriteErrors
          => file = file0
    /\ pc \in AfterWrite => file = fixed_content
    /\ out # <<>> =>
          /\ pc = "done"
          /\ out = << IF variant = "basic" THEN BasicMessage
                      ELSE ComprehensiveMessage >>
    /\ pc = "done" => Len(out) = 1 /\ err = "none"
    /\ pc = "raised" <=> err # "none"
    /\ pc = "raised" =>
          /\ ~ENABLED Next
          /\ out = <<>>
          /\ err \in ReadErrors \cup WriteErrors
          /\ err \in ReadErrors => file = file0

\* A run that repaired the file has printed its confirmation.
C8_Witness == pc = "done" /\ fixed_content # content /\ Len(out) = 1

----------------------------------------------------------------------------
(* C9 *)

\* C9: at most one file object is open at a time, the one for reading is
\* closed before the one for writing is opened, and none is open when the
\* run has ended, by its last statement or by an error.
C9_HandlesScoped ==
    /\ Cardinality(handles) <= 1
    /\ "r" \in handles <=> pc \in {"opened_r", "read"}
    /\ "w" \in handles <=> pc \in {"opened_w", "written"}
    /\ pc \in {"done", "raised"} => handles = {}

\* A write has failed and the run has ended.
C9_Witness == pc = "raised" /\ err = "write: OSError" /\ file # file0

----------------------------------------------------------------------------
(* C10 *)

\* The line the loop is to produce for line k of ls.
ExpectedLine(ls, k) ==
    IF RepairSite(ls, k) THEN ls[k] \o <<CM>> ELSE ls[k]

\* The loop has handled lines 1..i, in order, each once: output line k is
\* input line k, with one comma appended at its end at a repair site; the
\* next line is read from the input lines.
C10_LoopInvariant ==
    pc \in {"loop", "joined"} =>
        /\ Join(lines) = content
        /\ \A k \in 1..Len(lines) : \A j \in 1..Len(lines[k]) : lines[k][j] # NL
        /\ i <= Len(lines)
        /\ pc = "loop" => ENABLED (LoopStep \/ JoinLines)
        /\ Len(fixed_lines) = i
        /\ \A k \in 1..i : fixed_lines[k] = ExpectedLine(lines, k)
        /\ pc = "joined" =>
              /\ i = Len(lines)
              /\ fixed_lines[i] = lines[i]
              /\ fixed_content = Join(fixed_lines)

\* A step inside the loop visits the next line and nothing else, and a step
\* out of the loop is taken only when every line was visited.
C10_LoopStep ==
    /\ (pc = "loop" /\ pc' # "loop") => (i = Len(lines) /\ pc' = "joined")
    /\ (pc = "loop" /\ pc' = "loop") =>
        /\ i' = i + 1
        /\ lines' = lines
        /\ Len(fixed_lines') = Len(fixed_lines) + 1
        /\ SubSeq(fixed_lines', 1, Len(fixed_lines)) = fixed_lines

\* C10: the line loop of the comprehensive variant terminates after
\* visiting each line once in index order, and yields as many lines as the
\* input: line k with a comma appended when its trimmed text ends with }
\* and line k+1 exists and opens a quoted key, else line k as it was; the
\* last line never gets a comma.  Termination: the loop can always take a
\* step, every step inside it raises i by one, i never passes the number
\* of lines, and the loop is left exactly when i has reached it.
C10_LineLoop ==
    /\ []C10_LoopInvariant
    /\ [][C10_LoopStep]_vars

\* The loop has ended on a text of several lines, one of which got a comma.
C10_Witness ==
    /\ pc = "joined"
    /\ Len(lines) = MaxLines
    /\ \E k \in 1..Len(lines) : fixed_lines[k] # lines[k]

=============================================================================
